---- MODULE Spec2Model ----
(***************************************************************************)
(* The shadow-sync sample (samples/shadow/shadow_sync/main.cpp): one       *)
(* device process with a main thread and one event-loop thread, the        *)
(* shadow service holding the replica of one thing, and other clients      *)
(* ("writers") of the same thing.                                          *)
(*                                                                         *)
(* The device subscribes to the delta, update/accepted and update/rejected *)
(* topics of the thing, waits for the three subacks on a condition         *)
(* variable, and then reads desired values from the console.  Every delta  *)
(* that names the watched property is answered with an update that sets    *)
(* reported and desired to the value of the delta.                         *)
(***************************************************************************)
EXTENDS Integers, Sequences, FiniteSets

(* ------------------------------ bounds -------------------------------- *)
\* operations on the shadow from outside the callbacks: the updates other
\* clients make and the values the user types at the console, together
MaxOps == 2

(* --------------------------- JSON values ------------------------------ *)
\* A JSON value of the watched property: a string, a number, null, or the
\* key missing from its object.
JStr(s) == [t |-> "str", v |-> s]
JNum == [t |-> "num", v |-> "7"]
JNull == [t |-> "null", v |-> ""]
Absent == [t |-> "absent", v |-> ""]

\* what the console user can type as a value (anything but exit / quit)
UserStrings == {"on", "off"}
\* what another client can write as the desired value of the property
WriterValues == {JStr("on"), JStr("off"), JNum, JNull}

SHADOW_VALUE_DEFAULT == "off"
thingName == "thing1"

\* JsonView::GetString as called by the sample: the text of a string item,
\* the empty string for any other item.
GetString(j) == IF j.t = "str" THEN j.v ELSE ""

\* JsonView::IsNull
IsNull(j) == j.t = "null"

\* JsonView::ValueExists(shadowProperty).  The sample's deleted-property
\* branch takes a null item to exist; nullExists is the answer the JSON
\* library gives for a null item, which the sample's sources do not fix.
ValueExists(j, nullExists) == j.t # "absent" /\ (j.t = "null" => nullExists)

(* ----------------------------- state ---------------------------------- *)
VARIABLES
    pc,                              \* position of the main thread
    proc,                            \* "running", "exited" (exit(-1) was called) or "crashed"
    conn,                            \* transport: "connecting", "up", "failed", "closing", "closed"
    connectionSucceeded,
    connectionClosed,
    connectionCompleted,
    subAck,                          \* per subscription: "none", "pending", "ok", "err"
    subscribeDeltaCompleted,
    subscribeDeltaAccepedCompleted,
    subscribeDeltaRejectedCompleted,
    shadow,                          \* the replica: desired, reported, version
    devReq,                          \* update requests of the device on their way to the service
    deltaCh,                         \* messages on their way to onDeltaUpdated
    accCh,                           \* messages on their way to onUpdateShadowAccepted
    rejCh,                           \* messages on their way to onUpdateShadowRejected
    nPub,                            \* PublishUpdateShadow calls made so far
    outcomes,                        \* per update of the device: the times a handler ran with its outcome
    out,                             \* the last line printed: by whom, with which value
    writes,                          \* writer updates so far
    written,                         \* the desired value a writer has set last, Absent before
    refused,                         \* an update of the device was refused by the service or not sent
    dups,                            \* messages the transport has delivered twice so far
    inputs,                          \* console inputs so far
    typed                            \* the value main is inside s_changeShadowValue with, or ""

netVars == <<shadow, devReq, deltaCh, accCh, rejCh, writes, written, refused, dups>>
connVars == <<conn, connectionSucceeded, connectionClosed, connectionCompleted>>
subVars == <<subAck, subscribeDeltaCompleted, subscribeDeltaAccepedCompleted,
             subscribeDeltaRejectedCompleted>>
vars == <<pc, proc, connVars, subVars, netVars, nPub, outcomes, out, inputs, typed>>

\* The Version Guard of the specification.  The sample has none; it is
\* followed on its own, from the specification's words.
VARIABLES
    gCurrent,                        \* currentVersion: a version, or Unset
    gCandidate,                      \* the candidate version offered last
    gVerdict                         \* the answer to it: "Advance", "StaleIgnore", or "none"

guardVars == <<gCurrent, gCandidate, gVerdict>>

\* The Correlation Registry of the specification.  The sample has none (it
\* stores no token); it is followed on its own, from the specification's
\* words, with two threads of the embedder calling into it.
VARIABLES
    rPending,                        \* the pending entries: token, handler, issuedAt, timeout
    rLock,                           \* the thread inside the registry, or 0
    rThread,                         \* per thread: the call it is in, what it looked up, its last result
    rRegistered,                     \* per token: registrations that succeeded
    rRemoved,                        \* per token: entries taken out by resolve, cancel or expire
    rInvoked,                        \* per token: handler invocations
    rCalls,                          \* calls begun so far
    rOutcome,                        \* per token: the outcome its handler was last invoked with
    rNow                             \* the owning process's clock

regVars == <<rPending, rLock, rThread, rRegistered, rRemoved, rInvoked, rCalls, rOutcome, rNow>>

\* The JobStatus marshaller (src/source/jobs/JobStatus.cpp), followed on
\* its own: a string to parse and a status to print are drawn, and the two
\* functions are applied.
VARIABLES
    jsAsserts,                       \* whether the build keeps assert (NDEBUG not defined)
    jsStr,                           \* the string handed to FromString
    jsStatus,                        \* the status handed to ToString
    jsParsed,                        \* what FromString(jsStr) gave, or "none"
    jsText,                          \* what ToString(jsStatus) gave, or "none"
    jsBack                           \* what FromString(ToString(jsStatus)) gave, or "none"

jsVars == <<jsAsserts, jsStr, jsStatus, jsParsed, jsText, jsBack>>

\* The envelope codecs, followed on their own: a value of one of the types
\* is serialized into a document and a document is loaded into a value.
VARIABLES
    cdType,                          \* the request/response type
    cdValue,                         \* the value handed to SerializeToObject
    cdStart,                         \* the document handed to SerializeToObject
    cdDoc,                           \* the document after SerializeToObject or from a peer
    cdEncoded,                       \* whether cdDoc came from SerializeToObject
    cdBack,                          \* what the constructor from a document gave: error or value
    cdStep                           \* "value", then "document", then "loaded"

cdVars == <<cdType, cdValue, cdStart, cdDoc, cdEncoded, cdBack, cdStep>>

\* The describe-job-execution sample (src/unnamed/part_002, from line 716),
\* followed on its own from the moment the connection has succeeded.
VARIABLES
    jPc,                             \* where the main thread is
    jWaiting,                        \* the main thread is blocked in conditionVariable.wait
    jWoken,                          \* the main thread was woken and has not yet returned from wait
    jAck,                            \* per subscription: "none", "pending", "ok" or "err"
    jPubAck,                         \* the publish: "none", "pending", "ok" or "err"
    jReq,                            \* the request at the service: "none", "sent" or "answered"
    jForeign,                        \* messages on the accepted topic not caused by this request
    jClosed                          \* connectionClosed: "no", "pending" (Disconnect called) or "yes"

jobVars == <<jPc, jWaiting, jWoken, jAck, jPubAck, jReq, jForeign, jClosed>>
restVars == <<jsVars, cdVars, jobVars>>

JobStatusIdle ==
    /\ jsAsserts = TRUE /\ jsStr = "" /\ jsStatus = "JobStatus::QUEUED"
    /\ jsParsed = "none" /\ jsText = "none" /\ jsBack = "none"

\* a document without fields
EmptyDoc == [key \in {} |-> 0]

CodecIdle ==
    /\ cdType = "DeleteShadowRequest" /\ cdValue = EmptyDoc /\ cdStart = EmptyDoc
    /\ cdDoc = EmptyDoc /\ cdEncoded = FALSE
    /\ cdBack = [error |-> "", value |-> EmptyDoc] /\ cdStep = "value"

JobIdle ==
    /\ jPc = "subscribeAccepted" /\ jWaiting = FALSE /\ jWoken = FALSE
    /\ jAck = [accepted |-> "none", rejected |-> "none"]
    /\ jPubAck = "none" /\ jReq = "none" /\ jForeign = 0 /\ jClosed = "no"

RestIdle == JobStatusIdle /\ CodecIdle /\ JobIdle

engineVars == <<guardVars, regVars, restVars>>

Threads == {1, 2}
Tokens == {1, 2}
\* each calling thread registers its own handler
Handlers == [th \in Threads |-> IF th = 1 THEN "h1" ELSE "h2"]
Timeouts == {1, 2}
Outcomes == {"Accepted", "Rejected"}
NoCall == [op |-> "idle", token |-> 0, handler |-> "", timeout |-> 0, outcome |-> "",
           now |-> 0, snap |-> {}, result |-> "none", did |-> "none"]

RegistryIdle ==
    /\ rPending = {}
    /\ rLock = 0
    /\ rThread = [th \in Threads |-> NoCall]
    /\ rRegistered = [t \in Tokens |-> 0]
    /\ rRemoved = [t \in Tokens |-> 0]
    /\ rInvoked = [t \in Tokens |-> 0]
    /\ rCalls = 0
    /\ rOutcome = [t \in Tokens |-> "none"]
    /\ rNow = 0

\* no version observed yet
Unset == -1

GuardIdle == gCurrent = Unset /\ gCandidate = Unset /\ gVerdict = "none"

Channels == {"delta", "accepted", "rejected"}

NoDelta == [hasState |-> FALSE, prop |-> Absent, version |-> 0, dup |-> FALSE]
NoAccepted == [token |-> 0, hasReported |-> FALSE, reported |-> Absent,
               desired |-> Absent, version |-> 0, dup |-> FALSE]
NoRejected == [token |-> 0, code |-> 0, message |-> "", dup |-> FALSE]

\* a printed line: who printed it, and the text and the number it shows.
\* The line of s_changeShadowValue repeats the value of its caller's line
\* and is recorded with it ("input" is that line printed from the input loop).
Line(cb, text, code) == [cb |-> cb, text |-> text, code |-> code]
NoOutput == Line("none", "", 0)
\* the text printed from a value that is not there
Indeterminate == "?"

SampleInit ==
    /\ pc = "conn_check"
    /\ proc = "running"
    /\ conn = "connecting"
    /\ connectionSucceeded = FALSE
    /\ connectionClosed = FALSE
    /\ connectionCompleted = FALSE
    /\ subAck = [c \in Channels |-> "none"]
    /\ subscribeDeltaCompleted = FALSE
    /\ subscribeDeltaAccepedCompleted = FALSE
    /\ subscribeDeltaRejectedCompleted = FALSE
    /\ shadow = [desired |-> JStr("off"), reported |-> JStr("off"), version |-> 1]
    /\ devReq = <<>>
    /\ deltaCh = <<>>
    /\ accCh = <<>>
    /\ rejCh = <<>>
    /\ nPub = 0
    /\ outcomes = <<>>
    /\ out = NoOutput
    /\ writes = 0
    /\ written = Absent
    /\ refused = FALSE
    /\ dups = 0
    /\ inputs = 0
    /\ typed = ""

Init == SampleInit /\ GuardIdle /\ RegistryIdle /\ RestIdle

\* The version of the replica the device holds.  The sample holds none: no
\* callback reads response->Version or event->Version and no variable of
\* main stores one; 0 is "unset" (the versions of the replica start at 1).
currentVersion == 0

\* The process runs: no exit(-1), no crash, main has not returned.
Alive == proc = "running" /\ pc # "done"

\* Messages reach the callbacks while the connection is up (none is taken to
\* arrive between Disconnect() and onDisconnect).
Connected == conn = "up"

(* ------------------- the condition variable --------------------------- *)
\* conditionVariable.wait(uniqueLock, pred) is while (!pred()) wait(lock):
\* x_check evaluates pred, x_towait has seen it false and is about to block,
\* x_blocked is inside wait(lock).  notify_one wakes a blocked thread and is
\* lost otherwise: the callbacks never lock the mutex.
notify_one(p) ==
    CASE p = "conn_blocked" -> "conn_check"
      [] p = "sub_blocked" -> "sub_check"
      [] p = "disc_blocked" -> "disc_check"
      [] OTHER -> p

(* --------------------------- the callbacks ---------------------------- *)
\* Each callback is an operator from its arguments to what it does: the
\* values it hands to s_changeShadowValue, the line it prints, whether it
\* calls exit(-1), the flag it sets.  A null event / response pointer is
\* has = FALSE.

\* onConnectionCompleted: the value connectionSucceeded gets
onConnectionCompleted(errorCode) == errorCode = 0

onDeltaUpdatedSubAck(ioErr) ==
    IF ioErr # 0 THEN [exits |-> TRUE, completed |-> FALSE]
    ELSE [exits |-> FALSE, completed |-> TRUE]

onDeltaUpdatedAcceptedSubAck(ioErr) ==
    IF ioErr # 0 THEN [exits |-> TRUE, completed |-> FALSE]
    ELSE [exits |-> FALSE, completed |-> TRUE]

\* prints the error and goes on: the flag is set for a failed subscription too
onDeltaUpdatedRejectedSubAck(ioErr) == [exits |-> FALSE, completed |-> TRUE]

\* the predicate of the join wait
JoinPredicate ==
    subscribeDeltaCompleted /\ subscribeDeltaAccepedCompleted /\ subscribeDeltaRejectedCompleted

\* the UpdateShadowRequest s_changeShadowValue publishes; token is the fresh UUID
s_changeShadowValue(thing, value, token) ==
    [token |-> token, thing |-> thing, reported |-> JStr(value), desired |-> JStr(value)]

\* publishCompleted, the OnOperationComplete callback of the publish: the
\* line it prints
publishCompleted(thing, value, ioErr) ==
    IF ioErr # 0 THEN Line("publish_failed", thing, ioErr) ELSE Line("published", value, 0)

\* onDeltaUpdated with the non-null branch handing on the default instead of
\* the value of the delta
onDeltaUpdatedDefaultOnly(has, event, ioErr, nullExists) ==
    IF has /\ event.hasState /\ ValueExists(event.prop, nullExists)
    THEN [values |-> <<SHADOW_VALUE_DEFAULT>>,
          prints |-> <<Line("delta_desired", GetString(event.prop), 0)>>,
          exits |-> ioErr # 0]
    ELSE [values |-> <<>>,
          prints |-> IF has THEN <<Line("delta_no_change", "", 0)>> ELSE <<>>,
          exits |-> ioErr # 0]

\* onDeltaUpdated that tells a second copy of a delta and does not act on it
onDeltaUpdatedOnce(has, event, ioErr, nullExists) ==
    IF has /\ ~event.dup /\ event.hasState /\ ValueExists(event.prop, nullExists)
    THEN IF IsNull(event.prop)
         THEN [values |-> <<SHADOW_VALUE_DEFAULT>>,
               prints |-> <<Line("delta_deleted", SHADOW_VALUE_DEFAULT, 0)>>,
               exits |-> ioErr # 0]
         ELSE [values |-> <<GetString(event.prop)>>,
               prints |-> <<Line("delta_desired", GetString(event.prop), 0)>>,
               exits |-> ioErr # 0]
    ELSE [values |-> <<>>,
          prints |-> IF has THEN <<Line("delta_no_change", "", 0)>> ELSE <<>>,
          exits |-> ioErr # 0]

\* onDeltaUpdated that does not act on a delta whose desired value is the
\* reported value the accepted handler has just shown
onDeltaUpdatedIfChanged(has, event, ioErr, nullExists) ==
    IF has /\ event.hasState /\ ValueExists(event.prop, nullExists)
           /\ ~(out.cb = "accepted" /\ event.prop = JStr(out.text))
    THEN IF IsNull(event.prop)
         THEN [values |-> <<SHADOW_VALUE_DEFAULT>>,
               prints |-> <<Line("delta_deleted", SHADOW_VALUE_DEFAULT, 0)>>,
               exits |-> ioErr # 0]
         ELSE [values |-> <<GetString(event.prop)>>,
               prints |-> <<Line("delta_desired", GetString(event.prop), 0)>>,
               exits |-> ioErr # 0]
    ELSE [values |-> <<>>,
          prints |-> IF has THEN <<Line("delta_no_change", "", 0)>> ELSE <<>>,
          exits |-> ioErr # 0]

\* onDeltaUpdated without the ValueExists test: a property that is missing
\* reads as a null item and is reset to the default
onDeltaUpdatedNoExistsTest(has, event, ioErr, nullExists) ==
    IF has /\ event.hasState
    THEN IF IsNull(event.prop) \/ event.prop.t = "absent"
         THEN [values |-> <<SHADOW_VALUE_DEFAULT>>,
               prints |-> <<Line("delta_deleted", SHADOW_VALUE_DEFAULT, 0)>>,
               exits |-> ioErr # 0]
         ELSE [values |-> <<GetString(event.prop)>>,
               prints |-> <<Line("delta_desired", GetString(event.prop), 0)>>,
               exits |-> ioErr # 0]
    ELSE [values |-> <<>>,
          prints |-> IF has THEN <<Line("delta_no_change", "", 0)>> ELSE <<>>,
          exits |-> ioErr # 0]

onDeltaUpdated(has, event, ioErr, nullExists) ==
    IF has /\ event.hasState /\ ValueExists(event.prop, nullExists)
    THEN IF IsNull(event.prop)
         THEN [values |-> <<SHADOW_VALUE_DEFAULT>>,
               prints |-> <<Line("delta_deleted", SHADOW_VALUE_DEFAULT, 0)>>,
               exits |-> ioErr # 0]
         ELSE [values |-> <<GetString(event.prop)>>,
               prints |-> <<Line("delta_desired", GetString(event.prop), 0)>>,
               exits |-> ioErr # 0]
    ELSE [values |-> <<>>,
          prints |-> IF has THEN <<Line("delta_no_change", "", 0)>> ELSE <<>>,
          exits |-> ioErr # 0]

\* onUpdateShadowAccepted that tells a second copy of a response and skips it
onUpdateShadowAcceptedOnce(has, response, ioErr) ==
    IF ioErr = 0
    THEN [values |-> <<>>,
          prints |-> IF response.hasReported /\ ~response.dup
                     THEN <<Line("accepted", GetString(response.reported), 0)>>
                     ELSE <<>>,
          undefined |-> ~response.hasReported,
          exits |-> FALSE]
    ELSE [values |-> <<>>, prints |-> <<>>, undefined |-> FALSE, exits |-> TRUE]

\* onUpdateShadowAccepted that takes a response it has been shown before
\* for an error of the subscription
onUpdateShadowAcceptedStaleFatal(has, response, ioErr) ==
    IF ioErr = 0 /\ ~response.dup
    THEN [values |-> <<>>,
          prints |-> IF response.hasReported
                     THEN <<Line("accepted", GetString(response.reported), 0)>>
                     ELSE <<>>,
          undefined |-> ~response.hasReported,
          exits |-> FALSE]
    ELSE [values |-> <<>>, prints |-> <<>>, undefined |-> FALSE, exits |-> TRUE]

\* onUpdateShadowAccepted with the test of ioErr inverted: success exits
onUpdateShadowAcceptedExits(has, response, ioErr) ==
    IF ioErr # 0
    THEN [values |-> <<>>,
          prints |-> IF response.hasReported
                     THEN <<Line("accepted", GetString(response.reported), 0)>>
                     ELSE <<>>,
          undefined |-> ~response.hasReported,
          exits |-> FALSE]
    ELSE [values |-> <<>>, prints |-> <<>>, undefined |-> FALSE, exits |-> TRUE]

\* undefined: response->State->Reported is read without a test for presence
onUpdateShadowAccepted(has, response, ioErr) ==
    IF ioErr = 0
    THEN [values |-> <<>>,
          prints |-> IF response.hasReported
                     THEN <<Line("accepted", GetString(response.reported), 0)>>
                     ELSE <<>>,
          undefined |-> ~response.hasReported,
          exits |-> FALSE]
    ELSE [values |-> <<>>, prints |-> <<>>, undefined |-> FALSE, exits |-> TRUE]

\* onUpdateShadowRejected that reports nothing when ioErr is 0
onUpdateShadowRejectedSilent(has, error, ioErr) ==
    IF ioErr = 0
    THEN [values |-> <<>>, prints |-> <<>>, exits |-> FALSE]
    ELSE [values |-> <<>>, prints |-> <<>>, exits |-> TRUE]

\* onUpdateShadowRejected that takes a refused update for a failure of the
\* subscription and exits
onUpdateShadowRejectedFatal(has, error, ioErr) ==
    [values |-> <<>>,
     prints |-> IF ioErr = 0 THEN <<Line("rejected", error.message, error.code)>> ELSE <<>>,
     exits |-> TRUE]

\* onUpdateShadowRejected that publishes the default again after a refusal
onUpdateShadowRejectedRetries(has, error, ioErr) ==
    IF ioErr = 0
    THEN [values |-> <<SHADOW_VALUE_DEFAULT>>,
          prints |-> <<Line("rejected", error.message, error.code)>>,
          exits |-> FALSE]
    ELSE [values |-> <<>>, prints |-> <<>>, exits |-> TRUE]

onUpdateShadowRejected(has, error, ioErr) ==
    IF ioErr = 0
    THEN [values |-> <<>>,
          prints |-> <<Line("rejected", error.message, error.code)>>,
          exits |-> FALSE]
    ELSE [values |-> <<>>, prints |-> <<>>, exits |-> TRUE]

(* ----------------------- the shadow service --------------------------- *)
\* a message reaches a callback of the device when its subscription is
\* active and the device is connected and running
Reach(ch) == subAck[ch] = "ok" /\ Connected /\ Alive

Send(q, ch, m) == IF Reach(ch) THEN Append(q, m) ELSE q

\* a field of an update: not given keeps, null deletes, a value replaces
Merge(old, new) == IF new.t = "absent" THEN old ELSE IF new.t = "null" THEN Absent ELSE new

AcceptedMsg(token, hasReported, reported, desired, version) ==
    [token |-> token, hasReported |-> hasReported, reported |-> reported,
     desired |-> desired, version |-> version, dup |-> FALSE]

RejectedMsg(token, code, message) ==
    [token |-> token, code |-> code, message |-> message, dup |-> FALSE]

DeltaMsg(hasState, prop, version) ==
    [hasState |-> hasState, prop |-> prop, version |-> version, dup |-> FALSE]

\* the tokens of other clients are not tokens of the device
WriterToken == 0 - (writes + 1)

(* ------------------------ steps of the device ------------------------- *)
\* client.PublishUpdateShadow for each value handed to s_changeShadowValue
PublishUpdateShadow(values) ==
    IF values = <<>>
    THEN UNCHANGED <<devReq, nPub>>
    ELSE /\ devReq' = Append(devReq, s_changeShadowValue(thingName, values[1], nPub + 1))
         /\ nPub' = nPub + 1

\* the outcomes seen per update: a publish adds an update without outcome,
\* a handler that runs with the outcome of an update of the device counts it
Issued(values) == IF values = <<>> THEN outcomes ELSE Append(outcomes, 0)
Resolved(o, token) == IF token \in DOMAIN o THEN [o EXCEPT ![token] = @ + 1] ELSE o

\* the last line printed
Prints(lines) == out' = IF lines = <<>> THEN out ELSE lines[1]

\* connection->Connect completes: onConnectionCompleted runs
ConnectCompleted ==
    /\ Alive /\ conn = "connecting"
    /\ \E errorCode \in {0, 1} :
        /\ conn' = IF errorCode = 0 THEN "up" ELSE "failed"
        /\ connectionSucceeded' = onConnectionCompleted(errorCode)
    /\ connectionCompleted' = TRUE
    /\ pc' = notify_one(pc)
    /\ UNCHANGED <<proc, connectionClosed, subVars, netVars, nPub, outcomes, out, inputs, typed>>
    /\ UNCHANGED engineVars

\* connection->Disconnect completes: onDisconnect runs
DisconnectCompleted ==
    /\ Alive /\ conn = "closing"
    /\ conn' = "closed"
    /\ connectionClosed' = TRUE
    /\ pc' = notify_one(pc)
    /\ UNCHANGED <<proc, connectionSucceeded, connectionCompleted, subVars, netVars,
                   nPub, outcomes, out, inputs, typed>>
    /\ UNCHANGED engineVars

\* the end of main: disconnect unless the connection is closed already
LeaveShadow ==
    IF connectionClosed
    THEN pc' = "done" /\ UNCHANGED conn
    ELSE pc' = "disc_check" /\ conn' = (IF Connected THEN "closing" ELSE conn)

\* what is in flight when Disconnect() is called is not delivered
Dropped == devReq' = <<>> /\ deltaCh' = <<>> /\ accCh' = <<>> /\ rejCh' = <<>>

\* the connection wait, and on success the three subscribe calls
MainConnWait ==
    /\ Alive /\ pc = "conn_check"
    /\ IF connectionSucceeded \/ connectionClosed
       THEN IF connectionSucceeded
            THEN /\ pc' = "sub_check"
                 /\ subAck' = [c \in Channels |-> "pending"]
                 /\ UNCHANGED conn
            ELSE LeaveShadow /\ UNCHANGED subAck
       ELSE pc' = "conn_towait" /\ UNCHANGED <<conn, subAck>>
    /\ UNCHANGED <<proc, connectionSucceeded, connectionClosed, connectionCompleted,
                   subscribeDeltaCompleted, subscribeDeltaAccepedCompleted,
                   subscribeDeltaRejectedCompleted, netVars, nPub, outcomes, out, inputs, typed>>
    /\ UNCHANGED engineVars

\* the join wait on the three subacks
MainSubWait ==
    /\ Alive /\ pc = "sub_check"
    /\ pc' = IF JoinPredicate THEN "input" ELSE "sub_towait"
    /\ UNCHANGED <<proc, connVars, subVars, netVars, nPub, outcomes, out, inputs, typed>>
    /\ UNCHANGED engineVars

\* the wait for the disconnect
MainDiscWait ==
    /\ Alive /\ pc = "disc_check"
    /\ pc' = IF connectionClosed THEN "done" ELSE "disc_towait"
    /\ UNCHANGED <<proc, connVars, subVars, netVars, nPub, outcomes, out, inputs, typed>>
    /\ UNCHANGED engineVars

\* the main thread enters wait(lock) after it has seen the predicate false
MainBlock ==
    /\ Alive /\ pc \in {"conn_towait", "sub_towait", "disc_towait"}
    /\ pc' = CASE pc = "conn_towait" -> "conn_blocked"
               [] pc = "sub_towait" -> "sub_blocked"
               [] OTHER -> "disc_blocked"
    /\ UNCHANGED <<proc, connVars, subVars, netVars, nPub, outcomes, out, inputs, typed>>
    /\ UNCHANGED engineVars

\* wait(lock) may return without a notification
SpuriousWakeup ==
    /\ Alive /\ pc \in {"conn_blocked", "sub_blocked", "disc_blocked"}
    /\ pc' = notify_one(pc)
    /\ UNCHANGED <<proc, connVars, subVars, netVars, nPub, outcomes, out, inputs, typed>>
    /\ UNCHANGED engineVars

\* the input loop: a value is typed and s_changeShadowValue is entered
UserInput ==
    /\ Alive /\ pc = "input" /\ writes + inputs + dups < MaxOps
    /\ \E input \in UserStrings :
        /\ typed' = input
        /\ Prints(<<Line("input", input, 0)>>)
    /\ pc' = "changing"
    /\ inputs' = inputs + 1
    /\ UNCHANGED <<proc, connVars, subVars, netVars, nPub, outcomes>>
    /\ UNCHANGED engineVars

\* the main thread, inside s_changeShadowValue, builds the request and
\* publishes it, and returns to the input loop.  It holds no lock a callback
\* takes: the callbacks run on the event-loop thread meanwhile.
MainChangesShadow ==
    /\ Alive /\ pc = "changing"
    /\ PublishUpdateShadow(<<typed>>)
    /\ outcomes' = Issued(<<typed>>)
    /\ pc' = "input"
    /\ typed' = ""
    /\ UNCHANGED <<proc, connVars, subVars, shadow, deltaCh, accCh, rejCh, writes, written, refused,
                   dups, out, inputs>>
    /\ UNCHANGED engineVars

\* the input loop: exit or quit is typed
UserQuit ==
    /\ Alive /\ pc = "input"
    /\ LeaveShadow
    /\ Dropped
    /\ UNCHANGED <<proc, connectionSucceeded, connectionClosed, connectionCompleted, subVars,
                   shadow, writes, written, refused, dups, nPub, outcomes, out, inputs, typed>>
    /\ UNCHANGED engineVars

\* a suback arrives: the subscription's OnSubscribeComplete callback runs
SubAckArrives ==
    /\ Alive /\ Connected
    /\ \E ch \in Channels, ioErr \in {0, 1} :
        /\ subAck[ch] = "pending"
        /\ subAck' = [subAck EXCEPT ![ch] = IF ioErr = 0 THEN "ok" ELSE "err"]
        /\ LET r == CASE ch = "delta" -> onDeltaUpdatedSubAck(ioErr)
                      [] ch = "accepted" -> onDeltaUpdatedAcceptedSubAck(ioErr)
                      [] OTHER -> onDeltaUpdatedRejectedSubAck(ioErr)
           IN  IF r.exits
               THEN /\ proc' = "exited"
                    /\ UNCHANGED <<pc, subscribeDeltaCompleted, subscribeDeltaAccepedCompleted,
                                   subscribeDeltaRejectedCompleted>>
               ELSE /\ proc' = proc
                    /\ subscribeDeltaCompleted' =
                         IF ch = "delta" THEN r.completed ELSE subscribeDeltaCompleted
                    /\ subscribeDeltaAccepedCompleted' =
                         IF ch = "accepted" THEN r.completed ELSE subscribeDeltaAccepedCompleted
                    /\ subscribeDeltaRejectedCompleted' =
                         IF ch = "rejected" THEN r.completed ELSE subscribeDeltaRejectedCompleted
                    /\ pc' = notify_one(pc)
    /\ UNCHANGED <<connVars, netVars, nPub, outcomes, out, inputs, typed>>
    /\ UNCHANGED engineVars

\* the client reports an error of a subscription to the subscription's
\* message handler: a null pointer and ioErr; each of the three exits
HandlerError ==
    /\ Alive /\ Connected
    /\ \E ch \in Channels :
        /\ subAck[ch] = "pending"
        /\ subAck' = [subAck EXCEPT ![ch] = "err"]
        /\ LET exits == CASE ch = "delta" -> onDeltaUpdated(FALSE, NoDelta, 1, FALSE).exits
                          [] ch = "accepted" -> onUpdateShadowAccepted(FALSE, NoAccepted, 1).exits
                          [] OTHER -> onUpdateShadowRejected(FALSE, NoRejected, 1).exits
           IN  proc' = IF exits THEN "exited" ELSE proc
    /\ UNCHANGED <<pc, connVars, subscribeDeltaCompleted, subscribeDeltaAccepedCompleted,
                   subscribeDeltaRejectedCompleted, netVars, nPub, outcomes, out, inputs, typed>>
    /\ UNCHANGED engineVars

\* a delta event is delivered: onDeltaUpdated(&event, 0)
DeliverDelta ==
    /\ Alive /\ Connected /\ deltaCh # <<>>
    /\ \E nullExists \in BOOLEAN :
        LET r == onDeltaUpdated(TRUE, Head(deltaCh), 0, nullExists) IN
        /\ PublishUpdateShadow(r.values)
        /\ outcomes' = Issued(r.values)
        /\ Prints(r.prints)
        /\ proc' = IF r.exits THEN "exited" ELSE proc
    /\ deltaCh' = Tail(deltaCh)
    /\ UNCHANGED <<pc, connVars, subVars, shadow, accCh, rejCh, writes, written, refused, dups, inputs, typed>>
    /\ UNCHANGED engineVars

\* an accepted response is delivered: onUpdateShadowAccepted(&response, 0).
\* Reading an absent Reported is undefined: the process crashes, or prints
\* whatever text it finds and goes on.
DeliverAccepted ==
    /\ Alive /\ Connected /\ accCh # <<>>
    /\ LET r == onUpdateShadowAccepted(TRUE, Head(accCh), 0) IN
        /\ PublishUpdateShadow(r.values)
        /\ IF r.undefined
           THEN \/ proc' = "crashed" /\ UNCHANGED <<out, outcomes>>
                \/ /\ proc' = proc /\ Prints(<<Line("accepted", Indeterminate, 0)>>)
                   /\ outcomes' = Resolved(Issued(r.values), Head(accCh).token)
           ELSE /\ proc' = IF r.exits THEN "exited" ELSE proc
                /\ Prints(r.prints)
                /\ outcomes' = IF r.prints = <<>> THEN Issued(r.values)
                                ELSE Resolved(Issued(r.values), Head(accCh).token)
    /\ accCh' = Tail(accCh)
    /\ UNCHANGED <<pc, connVars, subVars, shadow, deltaCh, rejCh, writes, written, refused, dups, inputs, typed>>
    /\ UNCHANGED engineVars

\* a rejected response is delivered: onUpdateShadowRejected(&error, 0)
DeliverRejected ==
    /\ Alive /\ Connected /\ rejCh # <<>>
    /\ LET r == onUpdateShadowRejected(TRUE, Head(rejCh), 0) IN
        /\ PublishUpdateShadow(r.values)
        /\ Prints(r.prints)
        /\ outcomes' = IF r.prints = <<>> THEN Issued(r.values)
                        ELSE Resolved(Issued(r.values), Head(rejCh).token)
        /\ proc' = IF r.exits THEN "exited" ELSE proc
    /\ rejCh' = Tail(rejCh)
    /\ UNCHANGED <<pc, connVars, subVars, shadow, deltaCh, accCh, writes, written, refused, dups, inputs, typed>>
    /\ UNCHANGED engineVars

(* ------------------ steps of the service and writers ------------------ *)
devVars == <<pc, proc, connVars, subVars, nPub, outcomes, out, inputs, typed>>
\* the same but for the line printed
devVarsButOut == <<pc, proc, connVars, subVars, nPub, outcomes, inputs, typed>>

\* The service is followed while the device runs and is connected.  The
\* publish of an update completes when the broker has taken the request:
\* publishCompleted runs with success as the service gets the request, and
\* with an error when the request is not sent.
\* the service applies the oldest update of the device and answers on the
\* accepted topic with the state of the request; it publishes a delta when
\* desired then differs from reported
ServiceAccepts ==
    /\ Alive /\ Connected /\ devReq # <<>>
    /\ LET req == Head(devReq)
           desired == Merge(shadow.desired, req.desired)
           reported == Merge(shadow.reported, req.reported)
           version == shadow.version + 1
       IN  /\ shadow' = [desired |-> desired, reported |-> reported, version |-> version]
           /\ accCh' = Send(accCh, "accepted",
                            AcceptedMsg(req.token, TRUE, req.reported, req.desired, version))
           /\ deltaCh' = IF desired # Absent /\ desired # reported
                         THEN Send(deltaCh, "delta", DeltaMsg(TRUE, desired, version))
                         ELSE deltaCh
    /\ devReq' = Tail(devReq)
    /\ out' = publishCompleted(Head(devReq).thing, GetString(Head(devReq).reported), 0)
    /\ UNCHANGED <<devVarsButOut, rejCh, writes, written, refused, dups>>
    /\ UNCHANGED engineVars

\* the service refuses the oldest update of the device
ServiceRejects ==
    /\ Alive /\ Connected /\ devReq # <<>>
    /\ rejCh' = Send(rejCh, "rejected",
                     RejectedMsg(Head(devReq).token, 500, "Internal service failure"))
    /\ devReq' = Tail(devReq)
    /\ refused' = TRUE
    /\ out' = publishCompleted(Head(devReq).thing, GetString(Head(devReq).reported), 0)
    /\ UNCHANGED <<devVarsButOut, shadow, deltaCh, accCh, writes, written, dups>>
    /\ UNCHANGED engineVars

\* the oldest update of the device is not sent: its publish completes with
\* an error, the service never sees it
PublishFails ==
    /\ Alive /\ Connected /\ devReq # <<>>
    /\ out' = publishCompleted(Head(devReq).thing, GetString(Head(devReq).reported), 1)
    /\ devReq' = Tail(devReq)
    /\ refused' = TRUE
    /\ UNCHANGED <<devVarsButOut, shadow, deltaCh, accCh, rejCh, writes, written, dups>>
    /\ UNCHANGED engineVars

\* writers act while the device is subscribed to the deltas of the thing
WriterCanAct == writes + inputs + dups < MaxOps /\ Reach("delta")

\* another client sets (or, with null, deletes) the desired value of the
\* watched property; its update names no reported state
WriterUpdate ==
    /\ WriterCanAct
    /\ \E v \in WriterValues :
        LET desired == Merge(shadow.desired, v)
            version == shadow.version + 1
        IN  /\ shadow' = [shadow EXCEPT !.desired = desired, !.version = version]
            /\ accCh' = Send(accCh, "accepted",
                             AcceptedMsg(WriterToken, FALSE, Absent, v, version))
            /\ deltaCh' = IF v # shadow.reported
                          THEN Send(deltaCh, "delta", DeltaMsg(TRUE, v, version))
                          ELSE deltaCh
            /\ written' = v
    /\ writes' = writes + 1
    /\ UNCHANGED <<devVars, devReq, rejCh, refused, dups>>
    /\ UNCHANGED engineVars

\* another client changes the desired value of another property: the delta
\* does not name the watched property, or carries no state
WriterOther ==
    /\ WriterCanAct
    /\ \E hasState \in BOOLEAN :
        LET version == shadow.version + 1 IN
        /\ shadow' = [shadow EXCEPT !.version = version]
        /\ accCh' = Send(accCh, "accepted", AcceptedMsg(WriterToken, FALSE, Absent, Absent, version))
        /\ deltaCh' = Send(deltaCh, "delta", DeltaMsg(hasState, Absent, version))
    /\ writes' = writes + 1
    /\ UNCHANGED <<devVars, devReq, rejCh, written, refused, dups>>
    /\ UNCHANGED engineVars

\* another client's conditional update names a version that is no longer
\* the replica's: the service refuses it with 409
WriterConflict ==
    /\ WriterCanAct
    /\ rejCh' = Send(rejCh, "rejected", RejectedMsg(WriterToken, 409, "Version conflict"))
    /\ writes' = writes + 1
    /\ UNCHANGED <<devVars, shadow, devReq, deltaCh, accCh, written, refused, dups>>
    /\ UNCHANGED engineVars

\* The subscriptions are made with QoS AT_LEAST_ONCE: the transport may
\* deliver a message twice.  The second copy follows the first on its
\* channel and is marked.
Twice(q) == <<Head(q), [Head(q) EXCEPT !.dup = TRUE]>> \o Tail(q)

TransportDuplicates ==
    /\ Alive /\ Connected /\ writes + inputs + dups < MaxOps
    /\ \E ch \in Channels :
        CASE ch = "delta" ->
               /\ deltaCh # <<>> /\ ~Head(deltaCh).dup
               /\ deltaCh' = Twice(deltaCh) /\ UNCHANGED <<accCh, rejCh>>
          [] ch = "accepted" ->
               /\ accCh # <<>> /\ ~Head(accCh).dup
               /\ accCh' = Twice(accCh) /\ UNCHANGED <<deltaCh, rejCh>>
          [] OTHER ->
               /\ rejCh # <<>> /\ ~Head(rejCh).dup
               /\ rejCh' = Twice(rejCh) /\ UNCHANGED <<deltaCh, accCh>>
    /\ dups' = dups + 1
    /\ UNCHANGED <<devVars, shadow, devReq, writes, written, refused>>
    /\ UNCHANGED engineVars

Next ==
    \/ ConnectCompleted
    \/ DisconnectCompleted
    \/ MainConnWait
    \/ MainSubWait
    \/ MainDiscWait
    \/ MainBlock
    \/ SpuriousWakeup
    \/ UserInput
    \/ MainChangesShadow
    \/ UserQuit
    \/ SubAckArrives
    \/ HandlerError
    \/ DeliverDelta
    \/ DeliverAccepted
    \/ DeliverRejected
    \/ ServiceAccepts
    \/ ServiceRejects
    \/ PublishFails
    \/ WriterUpdate
    \/ WriterOther
    \/ WriterConflict
    \/ TransportDuplicates

Spec == Init /\ [][Next]_vars

\* the steps the main thread takes by itself, and the completions the
\* transport owes: the connect, the subacks, the disconnect
MainSteps == MainConnWait \/ MainSubWait \/ MainDiscWait \/ MainBlock \/ MainChangesShadow
Completions == ConnectCompleted \/ SubAckArrives \/ DisconnectCompleted

\* the main thread keeps running and every completion arrives; nothing
\* promises a spurious wakeup, an input or a message
SpecFair == Spec /\ WF_vars(MainSteps) /\ WF_vars(Completions)

(* -------------------------- the Version Guard ------------------------- *)
\* the versions offered to the guard
MaxVersion == 9
Versions == 0..MaxVersion

\* accept that lets a tie through
acceptTies(candidateVersion, current) ==
    IF current = Unset THEN "Advance"
    ELSE IF candidateVersion >= current THEN "Advance"
    ELSE "StaleIgnore"

\* accept(candidateVersion, currentVersion): Advance when the current
\* version is unset or the candidate is above it, StaleIgnore otherwise
accept(candidateVersion, current) ==
    IF current = Unset THEN "Advance"
    ELSE IF candidateVersion > current THEN "Advance"
    ELSE "StaleIgnore"

\* a candidate is put to the guard
GuardAccept ==
    /\ \E candidateVersion \in Versions :
        /\ gCandidate' = candidateVersion
        /\ gVerdict' = accept(candidateVersion, gCurrent)
    /\ UNCHANGED <<gCurrent, vars, regVars, restVars>>

\* the engine advances to a candidate the guard let through
GuardAdvance ==
    /\ gVerdict = "Advance"
    /\ gCurrent' = gCandidate
    /\ gVerdict' = "none"
    /\ UNCHANGED <<gCandidate, vars, regVars, restVars>>

\* every pair of a current and a candidate version
InitGuard ==
    /\ SampleInit
    /\ gCurrent \in {Unset} \cup Versions
    /\ gCandidate = Unset /\ gVerdict = "none"
    /\ RegistryIdle /\ RestIdle

NextGuard == GuardAccept \/ GuardAdvance

SpecGuard == InitGuard /\ [][NextGuard]_<<vars, engineVars>>

(* ---------------------- the Correlation Registry ---------------------- *)
\* calls into the registry
MaxCalls == 4

\* ticks of the clock
MaxTime == 3

\* the entries of a token
Lookup(pending, token) == {e \in pending : e.token = token}
Entry(token, handler, issuedAt, timeout) ==
    [token |-> token, handler |-> handler, issuedAt |-> issuedAt, timeout |-> timeout]

\* Each operation, from the entries it works on to the entries it leaves,
\* its result, the tokens whose handler it invokes and the outcome it
\* invokes them with.
\* a register that replaces the pending entry of its token
registerOverwrites(pending, token, handler, issuedAt, timeout) ==
    [pending |-> (pending \ Lookup(pending, token))
                    \cup {Entry(token, handler, issuedAt, timeout)},
     result |-> "ok", invoke |-> {}, removed |-> {}, outcome |-> ""]

\* register(token, handler): DuplicateToken when the token is pending
register(pending, token, handler, issuedAt, timeout) ==
    IF Lookup(pending, token) # {}
    THEN [pending |-> pending, result |-> "DuplicateToken", invoke |-> {}, removed |-> {},
          outcome |-> ""]
    ELSE [pending |-> pending \cup {Entry(token, handler, issuedAt, timeout)},
          result |-> "ok", invoke |-> {}, removed |-> {}, outcome |-> ""]

\* resolve(token, outcome): takes the entry out and invokes its handler
\* once with the outcome; silently dropped when there is none
resolve(pending, token, outcome) ==
    IF Lookup(pending, token) = {}
    THEN [pending |-> pending, result |-> "dropped", invoke |-> {}, removed |-> {},
          outcome |-> ""]
    ELSE [pending |-> pending \ Lookup(pending, token), result |-> "resolved",
          invoke |-> {token}, removed |-> {token}, outcome |-> outcome]

\* cancel(handle): takes the entry out, no handler is invoked
cancel(pending, token) ==
    IF Lookup(pending, token) = {}
    THEN [pending |-> pending, result |-> "dropped", invoke |-> {}, removed |-> {},
          outcome |-> ""]
    ELSE [pending |-> pending \ Lookup(pending, token), result |-> "cancelled",
          invoke |-> {}, removed |-> {token}, outcome |-> ""]

\* a sweep that also takes the entries just reaching their timeout
OlderOrDue(e, now) == now - e.issuedAt >= e.timeout

\* an entry is swept when it is older than its timeout
Older(e, now) == now - e.issuedAt > e.timeout

\* expire(now): resolves every entry older than its timeout with Timeout
expire(pending, now) ==
    LET old == {e \in pending : Older(e, now)} IN
    [pending |-> pending \ old, result |-> "expired",
     invoke |-> {e.token : e \in old}, removed |-> {e.token : e \in old},
     outcome |-> "Timeout"]

\* a registry without internal serialization
CanEnterUnlocked(th) == TRUE

\* the registry serializes access internally: one thread at a time
CanEnter(th) == rLock = 0

\* a thread enters an operation and reads the entries
RegBegin ==
    /\ rCalls < MaxCalls
    /\ \E th \in Threads, op \in {"register", "resolve", "cancel", "expire"},
          token \in Tokens, timeout \in Timeouts, outcome \in Outcomes :
        /\ rThread[th].op = "idle"
        /\ CanEnter(th)
        /\ op # "register" => timeout = 1
        /\ op # "resolve" => outcome = "Accepted"
        /\ op = "expire" => token = 1
        /\ rLock' = th
        /\ rThread' = [rThread EXCEPT ![th] =
                         [op |-> op,
                          token |-> IF op = "expire" THEN 0 ELSE token,
                          handler |-> IF op = "register" THEN Handlers[th] ELSE "",
                          timeout |-> IF op = "register" THEN timeout ELSE 0,
                          outcome |-> IF op = "resolve" THEN outcome ELSE "",
                          now |-> IF op \in {"register", "expire"} THEN rNow ELSE 0,
                          snap |-> rPending, result |-> "none", did |-> "none"]]
    /\ rCalls' = rCalls + 1
    /\ UNCHANGED <<rPending, rRegistered, rRemoved, rInvoked, rOutcome, rNow, vars, guardVars,
                   restVars>>

\* the thread writes the entries back, invokes the handlers and leaves
RegEnd ==
    /\ \E th \in Threads :
        LET c == rThread[th]
            r == CASE c.op = "register" ->
                        register(c.snap, c.token, c.handler, c.now, c.timeout)
                   [] c.op = "resolve" -> resolve(c.snap, c.token, c.outcome)
                   [] c.op = "cancel" -> cancel(c.snap, c.token)
                   [] OTHER -> expire(c.snap, c.now)
        IN  /\ c.op # "idle"
            /\ rPending' = r.pending
            /\ rInvoked' = [t \in Tokens |-> rInvoked[t] + IF t \in r.invoke THEN 1 ELSE 0]
            /\ rOutcome' = [t \in Tokens |-> IF t \in r.invoke THEN r.outcome ELSE rOutcome[t]]
            /\ rRemoved' = [t \in Tokens |-> rRemoved[t] + IF t \in r.removed THEN 1 ELSE 0]
            /\ rRegistered' = [t \in Tokens |->
                                 rRegistered[t] + IF c.op = "register" /\ r.result = "ok"
                                                      /\ t = c.token THEN 1 ELSE 0]
            /\ rThread' = [rThread EXCEPT ![th] = [NoCall EXCEPT !.result = r.result,
                                                                  !.did = c.op,
                                                                  !.token = c.token]]
            /\ rLock' = 0
    /\ UNCHANGED <<rCalls, rNow, vars, guardVars, restVars>>

\* time passes
RegTick ==
    /\ rNow < MaxTime
    /\ rNow' = rNow + 1
    /\ UNCHANGED <<rPending, rLock, rThread, rRegistered, rRemoved, rInvoked, rCalls,
                   rOutcome, vars, guardVars, restVars>>

InitRegistry == SampleInit /\ GuardIdle /\ RegistryIdle /\ RestIdle

NextRegistry == RegBegin \/ RegEnd \/ RegTick

SpecRegistry == InitRegistry /\ [][NextRegistry]_<<vars, engineVars>>

(* ------------------------ the JobStatus marshaller --------------------- *)
\* the enumerators of JobStatus, and the value FromString casts from -1
JobStatuses ==
    {"JobStatus::QUEUED", "JobStatus::IN_PROGRESS", "JobStatus::FAILED", "JobStatus::SUCCESS",
     "JobStatus::CANCELED", "JobStatus::REJECTED", "JobStatus::REMOVED"}
InvalidStatus == "static_cast<JobStatus>(-1)"
\* the process is ended by a failed assert
Aborted == "abort"

\* the strings handed to FromString: the seven names and some others
StatusStrings ==
    {"QUEUED", "IN_PROGRESS", "FAILED", "SUCCESS", "CANCELED", "REJECTED", "REMOVED",
     "", "queued", "SUCCEEDED", "TIMED_OUT", "UNKNOWN_STATUS"}

\* the bytes of a string, without the terminating zero
c_str(str) ==
    CASE str = "QUEUED" -> <<81, 85, 69, 85, 69, 68>>
      [] str = "IN_PROGRESS" -> <<73, 78, 95, 80, 82, 79, 71, 82, 69, 83, 83>>
      [] str = "FAILED" -> <<70, 65, 73, 76, 69, 68>>
      [] str = "SUCCESS" -> <<83, 85, 67, 67, 69, 83, 83>>
      [] str = "CANCELED" -> <<67, 65, 78, 67, 69, 76, 69, 68>>
      [] str = "REJECTED" -> <<82, 69, 74, 69, 67, 84, 69, 68>>
      [] str = "REMOVED" -> <<82, 69, 77, 79, 86, 69, 68>>
      [] str = "" -> <<>>
      [] str = "queued" -> <<113, 117, 101, 117, 101, 100>>
      [] str = "SUCCEEDED" -> <<83, 85, 67, 67, 69, 69, 68, 69, 68>>
      [] str = "TIMED_OUT" -> <<84, 73, 77, 69, 68, 95, 79, 85, 84>>
      [] str = "UNKNOWN_STATUS" -> <<85, 78, 75, 78, 79, 87, 78, 95, 83, 84, 65, 84, 85, 83>>

\* 32-bit unsigned words, kept as two 16-bit halves
RECURSIVE Pow2(_)
Pow2(k) == IF k = 0 THEN 1 ELSE 2 * Pow2(k - 1)
Half == Pow2(16)
Word(hi, lo) == [hi |-> hi, lo |-> lo]
RECURSIVE Xor16(_, _, _)
Xor16(x, y, bits) ==
    IF bits = 0 THEN 0
    ELSE ((x + y) % 2) + 2 * Xor16(x \div 2, y \div 2, bits - 1)
Xor(x, y) == Word(Xor16(x.hi, y.hi, 16), Xor16(x.lo, y.lo, 16))
Add(x, y) ==
    LET lo == x.lo + y.lo IN
    Word((x.hi + y.hi + lo \div Half) % Half, lo % Half)
Sub(x, y) ==
    LET lo == x.lo - y.lo
        borrow == IF lo < 0 THEN 1 ELSE 0
    IN  Word((x.hi - y.hi - borrow + Half) % Half, (lo + Half) % Half)
\* rot(x, k): rotate left by k bits
Rot16(x, k) ==
    IF k = 0 THEN x
    ELSE Word((x.hi % Pow2(16 - k)) * Pow2(k) + x.lo \div Pow2(16 - k),
              (x.lo % Pow2(16 - k)) * Pow2(k) + x.hi \div Pow2(16 - k))
rot(x, k) == IF k < 16 THEN Rot16(x, k) ELSE Rot16(Word(x.lo, x.hi), k - 16)

\* the byte at position i of the key (from 1), zero beyond its end
ByteAt(key, i) == IF i <= Len(key) THEN key[i] ELSE 0
\* the little-endian word of four bytes starting at position i
WordAt(key, i) ==
    Word(ByteAt(key, i + 3) * 256 + ByteAt(key, i + 2),
         ByteAt(key, i + 1) * 256 + ByteAt(key, i))

\* lookup3's mix(a, b, c) and final(a, b, c), one line of the macro per step
MixStep(s, k) ==
    LET a1 == Xor(Sub(s.a, s.c), rot(s.c, k)) IN
    [a |-> s.b, b |-> Add(s.c, s.b), c |-> a1]
mix(s) ==
    LET s1 == MixStep(s, 4)
        s2 == MixStep(s1, 6)
        s3 == MixStep(s2, 8)
        s4 == MixStep(s3, 16)
        s5 == MixStep(s4, 19)
        s6 == MixStep(s5, 4)
    IN  s6
FinalStep(x, y, k) == Sub(Xor(x, y), rot(y, k))
final(s) ==
    LET c1 == FinalStep(s.c, s.b, 14)
        a1 == FinalStep(s.a, c1, 11)
        b1 == FinalStep(s.b, a1, 25)
        c2 == FinalStep(c1, b1, 16)
        a2 == FinalStep(a1, c2, 4)
        b2 == FinalStep(b1, a2, 14)
        c3 == FinalStep(c2, b2, 24)
    IN  [a |-> a2, b |-> b2, c |-> c3]

\* hashlittle2(key, length, pc, pb): twelve bytes at a time, then the tail
RECURSIVE hashlittle2(_, _, _)
hashlittle2(key, i, s) ==
    LET k == [a |-> Add(s.a, WordAt(key, i)), b |-> Add(s.b, WordAt(key, i + 4)),
              c |-> Add(s.c, WordAt(key, i + 8))]
    IN  IF Len(key) - (i - 1) > 12 THEN hashlittle2(key, i + 12, mix(k))
        ELSE IF Len(key) - (i - 1) = 0 THEN s
        ELSE final(k)

\* aws_hash_c_string, which Crt::HashString returns as a size_t: seeds from
\* the digits of pi, the result is (b << 32) | c
HashSeedB == Word(12867, 63144)
HashSeedC == Word(34906, 12429)
DeadBeef == Word(57005, 48879)
HashString(str) ==
    LET key == c_str(str)
        init == Add(Add(DeadBeef, Word(0, Len(key))), HashSeedC)
        s == hashlittle2(key, 1, [a |-> init, b |-> init, c |-> Add(init, HashSeedB)])
    IN  <<s.b, s.c>>

QUEUED_HASH == HashString("QUEUED")
IN_PROGRESS_HASH == HashString("IN_PROGRESS")
FAILED_HASH == HashString("FAILED")
SUCCESS_HASH == HashString("SUCCESS")
CANCELED_HASH == HashString("CANCELED")
REJECTED_HASH == HashString("REJECTED")
REMOVED_HASH == HashString("REMOVED")

\* assert(0): ends the process when the build keeps assert, a no-op otherwise
AssertZero(asserts, otherwise) == IF asserts THEN Aborted ELSE otherwise

\* a ToString that prints REMOVED as CANCELED
ToStringMerged(status, asserts) ==
    CASE status = "JobStatus::QUEUED" -> "QUEUED"
      [] status = "JobStatus::IN_PROGRESS" -> "IN_PROGRESS"
      [] status = "JobStatus::FAILED" -> "FAILED"
      [] status = "JobStatus::SUCCESS" -> "SUCCESS"
      [] status = "JobStatus::CANCELED" -> "CANCELED"
      [] status = "JobStatus::REJECTED" -> "REJECTED"
      [] status = "JobStatus::REMOVED" -> "CANCELED"
      [] OTHER -> AssertZero(asserts, "UNKNOWN_STATUS")

ToString(status, asserts) ==
    CASE status = "JobStatus::QUEUED" -> "QUEUED"
      [] status = "JobStatus::IN_PROGRESS" -> "IN_PROGRESS"
      [] status = "JobStatus::FAILED" -> "FAILED"
      [] status = "JobStatus::SUCCESS" -> "SUCCESS"
      [] status = "JobStatus::CANCELED" -> "CANCELED"
      [] status = "JobStatus::REJECTED" -> "REJECTED"
      [] status = "JobStatus::REMOVED" -> "REMOVED"
      [] OTHER -> AssertZero(asserts, "UNKNOWN_STATUS")

FromString(str, asserts) ==
    LET hash == HashString(str) IN
    IF hash = QUEUED_HASH THEN "JobStatus::QUEUED"
    ELSE IF hash = IN_PROGRESS_HASH THEN "JobStatus::IN_PROGRESS"
    ELSE IF hash = FAILED_HASH THEN "JobStatus::FAILED"
    ELSE IF hash = SUCCESS_HASH THEN "JobStatus::SUCCESS"
    ELSE IF hash = CANCELED_HASH THEN "JobStatus::CANCELED"
    ELSE IF hash = REJECTED_HASH THEN "JobStatus::REJECTED"
    ELSE IF hash = REMOVED_HASH THEN "JobStatus::REMOVED"
    ELSE AssertZero(asserts, InvalidStatus)

JsFromString ==
    /\ jsParsed = "none"
    /\ jsParsed' = FromString(jsStr, jsAsserts)
    /\ UNCHANGED <<jsAsserts, jsStr, jsStatus, jsText, jsBack>>

JsToString ==
    /\ jsText = "none"
    /\ jsText' = ToString(jsStatus, jsAsserts)
    /\ UNCHANGED <<jsAsserts, jsStr, jsStatus, jsParsed, jsBack>>

\* FromString(ToString(status)); nothing is parsed once the process has ended
JsRoundTrip ==
    /\ jsBack = "none"
    /\ jsBack' = LET text == ToString(jsStatus, jsAsserts) IN
                 IF text = Aborted THEN Aborted ELSE FromString(text, jsAsserts)
    /\ UNCHANGED <<jsAsserts, jsStr, jsStatus, jsParsed, jsText>>

InitJobStatus ==
    /\ SampleInit /\ GuardIdle /\ RegistryIdle
    /\ jsAsserts \in BOOLEAN
    /\ jsStr \in StatusStrings
    /\ jsStatus \in JobStatuses \cup {InvalidStatus}
    /\ jsParsed = "none" /\ jsText = "none" /\ jsBack = "none"
    /\ CodecIdle /\ JobIdle

NextJobStatus ==
    (JsFromString \/ JsToString \/ JsRoundTrip)
        /\ UNCHANGED <<vars, guardVars, regVars, cdVars, jobVars>>

SpecJobStatus == InitJobStatus /\ [][NextJobStatus]_<<vars, engineVars>>

(* -------------------------- the envelope codecs ------------------------ *)
\* values of a document's fields
DocStr(str) == [t |-> "str", s |-> str, n |-> 0]
DocNum(num) == [t |-> "num", s |-> "", n |-> num]
DocNull == [t |-> "null", s |-> "", n |-> 0]
DocAbsent == [t |-> "absent", s |-> "", n |-> 0]
DocGet(doc, key) == IF key \in DOMAIN doc THEN doc[key] ELSE DocAbsent
WithField(doc, key, value) ==
    [k \in DOMAIN doc \cup {key} |-> IF k = key THEN value ELSE doc[k]]

\* Crt::Optional members
OptInt(num) == [has |-> TRUE, s |-> "", n |-> num]
OptStr(str) == [has |-> TRUE, s |-> str, n |-> 0]
None == [has |-> FALSE, s |-> "", n |-> 0]

FieldlessTypes == {"DeleteShadowRequest", "UpdateJobExecutionSubscriptionRequest"}
CodecTypes == FieldlessTypes \cup {"DeleteShadowResponse"}

\* the values of a type: a field-less request has one value; a
\* DeleteShadowResponse has any subset of its three members populated
ValuesOf(type) ==
    IF type \in FieldlessTypes THEN {EmptyDoc}
    ELSE [Version : {None, OptInt(0), OptInt(3)},
          ClientToken : {None, OptStr(""), OptStr("token")},
          Timestamp : {None, OptInt(0), OptInt(1500)}]
\* the default-constructed value
DefaultValue(type) ==
    IF type \in FieldlessTypes THEN EmptyDoc
    ELSE [Version |-> None, ClientToken |-> None, Timestamp |-> None]

\* documents a SerializeToObject is handed: empty, or already holding a field
StartDocs == {EmptyDoc, WithField(EmptyDoc, "extra", DocStr("x"))}
\* documents a peer sends
PeerDocs ==
    {EmptyDoc,
     WithField(EmptyDoc, "version", DocNum(3)),
     WithField(WithField(EmptyDoc, "clientToken", DocStr("token")), "extra", DocNull),
     WithField(EmptyDoc, "version", DocStr("3")),
     WithField(EmptyDoc, "timestamp", DocNull)}

\* an optional member: emitted when present, omitted when absent
EmitInt(doc, key, member) == IF member.has THEN WithField(doc, key, DocNum(member.n)) ELSE doc
EmitStr(doc, key, member) == IF member.has THEN WithField(doc, key, DocStr(member.s)) ELSE doc
\* DeleteShadowResponse::SerializeToObject that writes null for an absent version
SerializeResponseWithNulls(value, doc) ==
    EmitInt(EmitStr(WithField(doc, "version",
                              IF value.Version.has THEN DocNum(value.Version.n)
                              ELSE DocNull),
                    "clientToken", value.ClientToken),
            "timestamp", value.Timestamp)

\* DeleteShadowResponse::SerializeToObject
SerializeResponse(value, doc) ==
    EmitInt(EmitStr(EmitInt(doc, "version", value.Version),
                    "clientToken", value.ClientToken),
            "timestamp", value.Timestamp)

\* the field-less requests: the body is empty
SerializeToObject(type, value, doc) ==
    IF type \in FieldlessTypes THEN doc ELSE SerializeResponse(value, doc)

\* a field of the wrong shape
Mismatch(doc, key, shape) == DocGet(doc, key).t \notin {"absent", shape}
LoadInt(doc, key, member) ==
    IF DocGet(doc, key).t = "num" THEN OptInt(DocGet(doc, key).n) ELSE member
LoadStr(doc, key, member) ==
    IF DocGet(doc, key).t = "str" THEN OptStr(DocGet(doc, key).s) ELSE member

\* DeleteShadowResponse::LoadFromObject
LoadResponse(val, doc) ==
    [error |-> IF Mismatch(doc, "version", "num") THEN "TypeMismatch(version)"
               ELSE IF Mismatch(doc, "clientToken", "str") THEN "TypeMismatch(clientToken)"
               ELSE IF Mismatch(doc, "timestamp", "num") THEN "TypeMismatch(timestamp)"
               ELSE "",
     value |-> [Version |-> LoadInt(doc, "version", val.Version),
                ClientToken |-> LoadStr(doc, "clientToken", val.ClientToken),
                Timestamp |-> LoadInt(doc, "timestamp", val.Timestamp)]]

\* the field-less requests: the body is empty
LoadFromObject(type, val, doc) ==
    IF type \in FieldlessTypes THEN [error |-> "", value |-> val] ELSE LoadResponse(val, doc)

\* the constructor from a document: LoadFromObject(*this, doc)
FromDocument(type, doc) == LoadFromObject(type, DefaultValue(type), doc)

CodecSerialize ==
    /\ cdStep = "value" /\ cdStep' = "document"
    /\ \E start \in StartDocs :
        /\ cdStart' = start
        /\ cdDoc' = SerializeToObject(cdType, cdValue, start)
    /\ cdEncoded' = TRUE
    /\ UNCHANGED <<cdType, cdValue, cdBack>>

CodecReceive ==
    /\ cdStep = "value" /\ cdStep' = "document"
    /\ \E doc \in PeerDocs : cdDoc' = doc
    /\ cdEncoded' = FALSE
    /\ UNCHANGED <<cdType, cdValue, cdStart, cdBack>>

CodecLoad ==
    /\ cdStep = "document" /\ cdStep' = "loaded"
    /\ cdBack' = FromDocument(cdType, cdDoc)
    /\ UNCHANGED <<cdType, cdValue, cdStart, cdDoc, cdEncoded>>

InitCodec ==
    /\ SampleInit /\ GuardIdle /\ RegistryIdle /\ JobStatusIdle
    /\ cdType \in CodecTypes
    /\ cdValue \in ValuesOf(cdType)
    /\ cdStart = EmptyDoc /\ cdDoc = EmptyDoc /\ cdEncoded = FALSE
    /\ cdBack = [error |-> "", value |-> DefaultValue(cdType)] /\ cdStep = "value"
    /\ JobIdle

NextCodec ==
    (CodecSerialize \/ CodecReceive \/ CodecLoad)
        /\ UNCHANGED <<vars, guardVars, regVars, jsVars, jobVars>>

SpecCodec == InitCodec /\ [][NextCodec]_<<vars, engineVars>>

(* -------------------- the describe-job-execution sample ---------------- *)
\* messages on the accepted topic that other requests cause
MaxForeign == 1

\* the predicate-less waits of lines 749, 769 and 785
JobWaits == {"wait1", "wait2", "wait3"}
\* the statement after each wait
AfterWait(wait) ==
    CASE wait = "wait1" -> "subscribeRejected"
      [] wait = "wait2" -> "publish"
      [] OTHER -> "disconnect"

\* conditionVariable.notify_one(): wakes the main thread if it is blocked
\* in wait, and is lost otherwise
jobNotify(waiting, woken, notified) ==
    IF notified /\ waiting THEN [waiting |-> FALSE, woken |-> TRUE]
    ELSE [waiting |-> waiting, woken |-> woken]
JobNotifyOne(notified) ==
    /\ jWaiting' = jobNotify(jWaiting, jWoken, notified).waiting
    /\ jWoken' = jobNotify(jWaiting, jWoken, notified).woken

\* subAckHandler (lines 724-730): notifies only without an error
subAckHandler(ioErr) == ioErr = 0
\* subscriptionHandler (lines 732-746): notifies on an error and on a response
subscriptionHandler(ioErr) == TRUE
\* failureHandler (lines 751-766): notifies on an error and on a service error
failureHandler(error, ioErr) == ioErr # 0 \/ error
\* publishHandler (lines 774-782): notifies only on an error
publishHandler(ioErr) == ioErr # 0

\* line 748
JobSubscribeAccepted ==
    /\ jPc = "subscribeAccepted"
    /\ jAck' = [jAck EXCEPT !.accepted = "pending"]
    /\ jPc' = "wait1"
    /\ UNCHANGED <<jWaiting, jWoken, jPubAck, jReq, jForeign, jClosed>>

\* line 768
JobSubscribeRejected ==
    /\ jPc = "subscribeRejected"
    /\ jAck' = [jAck EXCEPT !.rejected = "pending"]
    /\ jPc' = "wait2"
    /\ UNCHANGED <<jWaiting, jWoken, jPubAck, jReq, jForeign, jClosed>>

\* line 784
JobPublish ==
    /\ jPc = "publish"
    /\ jPubAck' = "pending"
    /\ jPc' = "wait3"
    /\ UNCHANGED <<jWaiting, jWoken, jAck, jReq, jForeign, jClosed>>

\* conditionVariable.wait(uniqueLock): the main thread releases the mutex
\* and blocks
JobBlock ==
    /\ jPc \in JobWaits /\ ~jWaiting /\ ~jWoken
    /\ jWaiting' = TRUE
    /\ UNCHANGED <<jPc, jWoken, jAck, jPubAck, jReq, jForeign, jClosed>>

\* a wait without a predicate may return without a notification
JobSpuriousWakeup ==
    /\ jWaiting
    /\ jWaiting' = FALSE /\ jWoken' = TRUE
    /\ UNCHANGED <<jPc, jAck, jPubAck, jReq, jForeign, jClosed>>

\* wait returns
JobWake ==
    /\ jPc \in JobWaits /\ jWoken
    /\ jWoken' = FALSE
    /\ jPc' = AfterWait(jPc)
    /\ UNCHANGED <<jWaiting, jAck, jPubAck, jReq, jForeign, jClosed>>

\* the acknowledgement of a subscribe arrives; on an error the client may
\* also hand the error to the subscription's handler
JobSubAck ==
    /\ \E topic \in {"accepted", "rejected"}, ioErr \in {0, 1}, told \in BOOLEAN :
        /\ jAck[topic] = "pending"
        /\ told => ioErr # 0
        /\ jAck' = [jAck EXCEPT ![topic] = IF ioErr = 0 THEN "ok" ELSE "err"]
        /\ JobNotifyOne(subAckHandler(ioErr)
                        \/ (told /\ IF topic = "accepted" THEN subscriptionHandler(ioErr)
                                     ELSE failureHandler(FALSE, ioErr)))
    /\ UNCHANGED <<jPc, jPubAck, jReq, jForeign, jClosed>>

\* a response to somebody else's request for the same job arrives
JobForeignMessage ==
    /\ jAck.accepted = "ok" /\ jForeign < MaxForeign /\ jClosed = "no"
    /\ jForeign' = jForeign + 1
    /\ JobNotifyOne(subscriptionHandler(0))
    /\ UNCHANGED <<jPc, jAck, jPubAck, jReq, jClosed>>

\* the publish completes
JobPubAck ==
    /\ jPubAck = "pending"
    /\ \E ioErr \in {0, 1} :
        /\ jPubAck' = IF ioErr = 0 THEN "ok" ELSE "err"
        /\ jReq' = IF ioErr = 0 THEN "sent" ELSE jReq
        /\ JobNotifyOne(publishHandler(ioErr))
    /\ UNCHANGED <<jPc, jAck, jForeign, jClosed>>

\* the service answers the request on the accepted or the rejected topic;
\* the answer reaches the sample if that subscription stands
JobServiceResponds ==
    /\ jReq = "sent" /\ jClosed = "no"
    /\ jReq' = "answered"
    /\ \E topic \in {"accepted", "rejected"} :
        JobNotifyOne(jAck[topic] = "ok"
                     /\ IF topic = "accepted" THEN subscriptionHandler(0)
                        ELSE failureHandler(TRUE, 0))
    /\ UNCHANGED <<jPc, jAck, jPubAck, jForeign, jClosed>>

\* lines 788-790
JobDisconnect ==
    /\ jPc = "disconnect"
    /\ jClosed' = "pending"
    /\ jPc' = "waitClosed"
    /\ UNCHANGED <<jWaiting, jWoken, jAck, jPubAck, jReq, jForeign>>

\* onDisconnect (lines 687-697)
JobDisconnectCompleted ==
    /\ jClosed = "pending"
    /\ jClosed' = "yes"
    /\ UNCHANGED <<jPc, jWaiting, jWoken, jAck, jPubAck, jReq, jForeign>>

\* line 791: wait until connectionClosed, then return 0
JobReturn ==
    /\ jPc = "waitClosed" /\ jClosed = "yes"
    /\ jPc' = "done"
    /\ UNCHANGED <<jWaiting, jWoken, jAck, jPubAck, jReq, jForeign, jClosed>>

InitJob == SampleInit /\ GuardIdle /\ RegistryIdle /\ JobStatusIdle /\ CodecIdle /\ JobIdle

JobMain ==
    \/ JobSubscribeAccepted \/ JobSubscribeRejected \/ JobPublish
    \/ JobBlock \/ JobWake \/ JobDisconnect \/ JobReturn
JobTransport == JobSubAck \/ JobPubAck \/ JobServiceResponds \/ JobDisconnectCompleted

NextJob ==
    (JobMain \/ JobTransport \/ JobSpuriousWakeup \/ JobForeignMessage)
        /\ UNCHANGED <<vars, guardVars, regVars, jsVars, cdVars>>

SpecJob == InitJob /\ [][NextJob]_<<vars, engineVars>>

\* the main thread keeps running and the transport delivers every
\* acknowledgement and response; nothing promises a spurious wakeup or
\* somebody else's message
SpecJobFair ==
    /\ SpecJob
    /\ WF_<<vars, engineVars>>(JobMain /\ UNCHANGED <<vars, guardVars, regVars, jsVars, cdVars>>)
    /\ WF_<<vars, engineVars>>(JobTransport /\ UNCHANGED <<vars, guardVars, regVars, jsVars, cdVars>>)

(* ============================ properties ============================== *)
\* The engine states of the specification, read off the sample: the main
\* thread is in the input loop (Synced) once the join wait has been passed.
Synced == pc \in {"input", "changing"}
AnySubscriptionFailed == \E ch \in Channels : subAck[ch] = "err"
AllSubscriptionsConfirmed == \A ch \in Channels : subAck[ch] = "ok"

\* C1: the main thread starts accepting user updates only after the delta,
\* update-accepted and update-rejected subscriptions have each been
\* confirmed.  (The join itself holds for the six orders of successful
\* subacks; what breaks it is the failed rejected subscription of C2, whose
\* suback callback sets the flag of the join all the same.)
C1_SyncedOnlyAfterThreeConfirmed == Synced => AllSubscriptionsConfirmed

\* C2: once one of the three subscriptions is acknowledged with a transport
\* error the engine is Faulted for good: it is never Synced afterwards and
\* it issues no UpdateRequest afterwards.
C2_SubscribeErrorIsTerminal ==
    [][AnySubscriptionFailed => (~Synced' /\ nPub' = nPub)]_vars

\* C3: an UpdateRequest issued in reaction to a delta that names the watched
\* property with a non-null value carries that value as reported and as
\* desired, names the thing and carries a token.
C3_UpdateMirrorsDeltaValue ==
    [][(DeliverDelta /\ Head(deltaCh).hasState
          /\ Head(deltaCh).prop.t \notin {"absent", "null"} /\ nPub' # nPub)
        => (/\ devReq' # <<>>
            /\ devReq'[Len(devReq')].reported = Head(deltaCh).prop
            /\ devReq'[Len(devReq')].desired = Head(deltaCh).prop
            /\ devReq'[Len(devReq')].thing = thingName
            /\ devReq'[Len(devReq')].token = nPub')]_vars

\* the replica has converged: no desired value, or reported equals it
Converged == shadow.desired = Absent \/ shadow.desired = shadow.reported

\* Nothing is left to happen to the replica: the three subscriptions stand,
\* the device has not disconnected, the service has refused none of its
\* updates and all of them were sent, no update is on its way and no message
\* waits for a callback that could still run.
Settled ==
    /\ AllSubscriptionsConfirmed
    /\ pc \notin {"disc_check", "disc_towait", "disc_blocked", "done"}
    /\ ~refused
    /\ devReq = <<>>
    /\ (proc = "running" => deltaCh = <<>> /\ accCh = <<>> /\ rejCh = <<>>)

\* C4: when the writers have stopped and everything published has been
\* delivered, the reported value equals the desired value and no update is
\* in flight.
C4_SettledIsConverged == Settled => Converged

\* the updates of the device whose outcome has not reached its callback
RECURSIVE OwnIn(_)
OwnIn(q) == IF q = <<>> THEN 0 ELSE (IF Head(q).token > 0 THEN 1 ELSE 0) + OwnIn(Tail(q))
InFlight == Len(devReq) + OwnIn(accCh) + OwnIn(rejCh)

\* a delta that names the watched property with a value
NamesValue(event) == event.hasState /\ event.prop.t \notin {"absent", "null"}

C6_ForeignDeltaIgnored ==
    [][(DeliverDelta /\ (~Head(deltaCh).hasState \/ Head(deltaCh).prop = Absent))
        => UNCHANGED <<pc, proc, connVars, subVars, shadow, devReq, nPub, inputs, typed>>]_vars

\* the delta of another property was handled: the only write so far was to
\* another property, and the callback reported no change
C6_ForeignDeltaHandled ==
    /\ out.cb = "delta_no_change" /\ writes = 1 /\ inputs = 0 /\ deltaCh = <<>>
    /\ shadow.version = 2 /\ shadow.desired = JStr("off") /\ rejCh = <<>>

\* an accepted response to an update of the device itself
OwnAccepted == DeliverAccepted /\ Head(accCh).token > 0

\* C7 (as stated): when the Accepted outcome of an update of the device is
\* delivered the engine is Synced, currentVersion becomes the version of
\* the outcome (it is greater), and the success callback reports the
\* resulting reported value.
C7_AcceptedAdvancesVersion ==
    [][(OwnAccepted /\ Synced /\ Head(accCh).version > currentVersion)
        => (/\ Synced'
            /\ currentVersion' = Head(accCh).version
            /\ out' = Line("accepted", GetString(Head(accCh).reported), 0))]_vars

\* C7 (amended): each delivery of the Accepted outcome of an update of the
\* device runs onUpdateShadowAccepted once, which prints the reported value
\* of the response; the main thread stays where it is (Synced stays
\* Synced), the process goes on, nothing is published, and no state of the
\* device records the version of the outcome: there is no currentVersion.
C7_AcceptedIsReported ==
    [][OwnAccepted
        => (/\ out' = Line("accepted", GetString(Head(accCh).reported), 0)
            /\ UNCHANGED <<pc, proc, connVars, subVars, nPub, devReq, inputs, typed>>)]_vars

\* the device in the input loop has printed the reported value "on" of an
\* accepted update, which the replica holds
C7_AcceptedSeen ==
    /\ Synced /\ proc = "running" /\ nPub = 1
    /\ out = Line("accepted", "on", 0) /\ shadow.reported = JStr("on")

\* C8: a Rejected outcome reaches onUpdateShadowRejected with the code and
\* the message of the server as they are, and it is not fatal: the main
\* thread stays where it is (Synced stays Synced), the process and the
\* connection go on, and the deltas that wait are still delivered.
C8_RejectedVerbatimNotFatal ==
    [][DeliverRejected
        => (/\ out' = Line("rejected", Head(rejCh).message, Head(rejCh).code)
            /\ proc' = "running" /\ conn' = "up"
            /\ UNCHANGED <<pc, subVars, deltaCh, shadow>>)]_vars

\* the 409 of a version conflict was printed in the input loop and a delta
\* waits to be handled
C8_ConflictSeen ==
    /\ Synced /\ proc = "running" /\ conn = "up"
    /\ out = Line("rejected", "Version conflict", 409) /\ deltaCh # <<>>

\* C9: a Rejected outcome publishes nothing; an UpdateRequest is published
\* only by a step that handles a delta or a value typed by the user.  (The
\* sample has no timeout: an update that is never answered stays so.)
C9_NoAutomaticRetry ==
    [][/\ DeliverRejected => UNCHANGED <<nPub, devReq>>
       /\ nPub' # nPub => (DeliverDelta \/ MainChangesShadow)]_vars

\* the one update of the device was refused, the refusal was printed, and
\* nothing was published since
C9_RefusedAndQuiet ==
    /\ refused /\ nPub = 1 /\ proc = "running"
    /\ out = Line("rejected", "Internal service failure", 500)
    /\ devReq = <<>> /\ deltaCh = <<>> /\ accCh = <<>> /\ rejCh = <<>>

\* C10: an accepted or rejected response whose token is not one of the
\* device (the answer to another client's update) has no observable
\* effect: no handler prints, nothing changes, the process goes on.
C10_ForeignResponseDropped ==
    [][((DeliverAccepted /\ Head(accCh).token <= 0) \/ (DeliverRejected /\ Head(rejCh).token <= 0))
        => UNCHANGED <<pc, proc, connVars, subVars, nPub, devReq, out, inputs, typed>>]_vars

OwnRejected == DeliverRejected /\ Head(rejCh).token > 0

\* the device runs connected and nothing of its updates is under way: no
\* request, no response
AtRest ==
    /\ proc = "running" /\ conn = "up"
    /\ devReq = <<>> /\ accCh = <<>> /\ rejCh = <<>>

\* C12 (as stated): every update the device issued yields exactly one
\* outcome to its caller, never zero and never two, also when its publish
\* failed or its response is never delivered.
C12_ExactlyOneOutcome == AtRest => \A t \in DOMAIN outcomes : outcomes[t] = 1

\* C12 (amended): every delivery of an Accepted or Rejected response to an
\* update of the device yields one outcome to its handler, and nothing else
\* yields one: an update whose publish fails (publishCompleted prints the
\* failure) or whose response is not delivered gets no outcome, as there is
\* no timeout, and an update whose response is delivered twice gets two.
C12_OneOutcomePerDelivery ==
    [][/\ OwnAccepted => outcomes' = [outcomes EXCEPT ![Head(accCh).token] = @ + 1]
       /\ OwnRejected => outcomes' = [outcomes EXCEPT ![Head(rejCh).token] = @ + 1]
       /\ ~(DeliverAccepted \/ DeliverRejected)
            => \A t \in DOMAIN outcomes : outcomes'[t] = outcomes[t]]_vars

\* the publish of the one update failed and the update is left without an
\* outcome
C12_NoOutcome ==
    /\ AtRest /\ deltaCh = <<>> /\ nPub = 1 /\ outcomes = <<0>>
    /\ out.cb = "publish_failed"

\* a delta delivered again: its version is that of a delta already handled
StaleDelta == DeliverDelta /\ Head(deltaCh).dup /\ NamesValue(Head(deltaCh))

\* C13 (as stated): a delta whose version is not above the last version
\* seen, such as the second delivery of a delta already handled, triggers
\* no UpdateRequest.
C13_StaleDeltaIgnored == [][StaleDelta => nPub' = nPub]_vars

\* C13 (amended): the version of a delta is not looked at: a delta that
\* names the watched property with a non-null value triggers an
\* UpdateRequest whatever its version, the second delivery of a delta
\* already handled included.
C13_StaleDeltaPublishes ==
    [][StaleDelta
        => (/\ nPub' = nPub + 1
            /\ Len(devReq') = Len(devReq) + 1
            /\ devReq'[Len(devReq')].desired = JStr(GetString(Head(deltaCh).prop)))]_vars

\* one write of another client, delivered twice, has made the device
\* publish twice
C13_PublishedTwiceForOneDelta ==
    /\ nPub = 2 /\ writes = 1 /\ inputs = 0 /\ dups = 1 /\ deltaCh = <<>>
    /\ out.cb = "delta_desired"

\* a delta whose desired value is the reported value the device knows: the
\* one of the Accepted response its handler has shown last
SameAsReported ==
    DeliverDelta /\ Head(deltaCh).hasState /\ out.cb = "accepted"
                 /\ Head(deltaCh).prop = JStr(out.text)

\* C14 (as stated): a delta whose desired value equals the last reported
\* value causes no UpdateRequest.
C14_NoUpdateForEqualValue == [][SameAsReported => nPub' = nPub]_vars

\* C14 (amended): the device compares nothing: a delta that names the
\* watched property with a non-null value causes an UpdateRequest also when
\* its desired value equals the last reported value the device was shown.
C14_UpdateForEqualValue ==
    [][SameAsReported
        => (/\ nPub' = nPub + 1
            /\ devReq' = Append(devReq, s_changeShadowValue(thingName, out.text, nPub + 1)))]_vars

\* the update typed by the user was accepted with reported "on" and shown,
\* and the delta of another client's "on" has made the device publish "on"
\* once more
C14_PublishedTheSameAgain ==
    /\ nPub = 2 /\ inputs = 1 /\ writes = 1 /\ dups = 0 /\ outcomes = <<1, 0>>
    /\ out = Line("delta_desired", "on", 0) /\ shadow.reported = JStr("on")
    /\ Len(devReq) = 1 /\ devReq[1].desired = JStr("on")

\* C15: for every pair of a current version a and a candidate b the guard
\* answers Advance exactly when a is unset or b > a, and StaleIgnore for
\* b = a and for b < a.
C15_GuardPolicy ==
    gVerdict # "none"
      => /\ gVerdict = "Advance" <=> (gCurrent = Unset \/ gCandidate > gCurrent)
         /\ gVerdict = "StaleIgnore" <=> (gCurrent # Unset /\ gCandidate <= gCurrent)

\* a tie was put to the guard and was held stale
C15_TieIsStale ==
    gCurrent # Unset /\ gCandidate = gCurrent /\ gVerdict = "StaleIgnore"

\* an Accepted outcome of an update of the device whose version is not
\* above the versions its handler was shown before: channels keep their
\* order, so it is a second delivery
StaleAccepted == OwnAccepted /\ Head(accCh).dup

C17_ChangesAreSerialized ==
    [][(DeliverDelta /\ nPub' # nPub) => pc # "changing"]_vars

\* all that was published has been processed by a device that still runs
Processed == Settled /\ proc = "running"

\* C18: the updates of the device do not corrupt the replica: when other
\* clients have set the desired value of the watched property, the last
\* time to a string D2, no user has typed a value, and all messages have
\* been processed, the desired value of the replica is D2.
C18_LastWriteSurvives ==
    (Processed /\ inputs = 0 /\ written.t = "str") => shadow.desired = written

\* the registry holds two entries of one token
TwoPendingOfOneToken ==
    \E e1 \in rPending, e2 \in rPending : e1.token = e2.token /\ e1 # e2

\* a register that finds its token pending
RegisterOnPending(th) ==
    /\ rThread[th].op = "register"
    /\ Lookup(rPending, rThread[th].token) # {}

\* C19: at every moment at most one request is pending per correlation
\* token (so the tokens of two requests in flight are distinct), and a
\* register on a token that is already pending fails with DuplicateToken
\* and leaves the existing entry and its handler unchanged.
C19_OnePendingPerToken ==
    /\ [](~TwoPendingOfOneToken)
    /\ [][\A th \in Threads :
            (RegisterOnPending(th) /\ rThread'[th].op = "idle")
                => (rPending' = rPending /\ rThread'[th].result = "DuplicateToken")]_regVars

\* C19 witness: a register was refused as a duplicate while the token's
\* entry, registered once, is still pending.
C19_DuplicateRefused ==
    \E th \in Threads :
        /\ rThread[th].result = "DuplicateToken"
        /\ Lookup(rPending, rThread[th].token) # {}
        /\ rRegistered[rThread[th].token] = 1

\* C20: under every interleaving of register, resolve, cancel and expire
\* from two threads, the handler of a registration is invoked at most once
\* and no registration is lost: whenever no call is inside the registry, a
\* token is pending exactly when it was registered and not yet taken out.
C20_SerializedRegistry ==
    \A t \in Tokens :
        /\ rInvoked[t] <= rRemoved[t]
        /\ rRemoved[t] <= rRegistered[t]
        /\ rLock = 0 =>
              /\ rRegistered[t] - rRemoved[t] \in {0, 1}
              /\ (Lookup(rPending, t) # {}) <=> (rRegistered[t] - rRemoved[t] = 1)

\* C20 witness: two threads called resolve on one token; one invoked the
\* handler, the other found nothing.
C20_RacingResolves ==
    /\ rThread[1].result = "resolved" /\ rThread[2].result = "dropped"
    /\ rThread[1].did = "resolve" /\ rThread[2].did = "resolve"
    /\ rThread[1].token = rThread[2].token
    /\ rInvoked[rThread[1].token] = 1
    /\ rRegistered[rThread[1].token] = 1

\* thread th completes the operation op in this step
Completes(th, op) == rThread[th].op = op /\ rThread'[th].op = "idle"

\* C21: expire(now) invokes the handler of every pending entry older than
\* its timeout exactly once, with Timeout, and removes the token; an entry
\* not yet older than its timeout is left pending and its handler is not
\* invoked; a resolve (a late Accepted) for a token that is not pending is
\* dropped without invoking any handler.
C21_ExpireTimesOutOnce ==
    [][\A th \in Threads :
        /\ Completes(th, "expire") =>
              \A e \in rPending :
                  IF rThread[th].now - e.issuedAt > e.timeout
                  THEN /\ rInvoked'[e.token] = rInvoked[e.token] + 1
                       /\ rOutcome'[e.token] = "Timeout"
                       /\ Lookup(rPending', e.token) = {}
                  ELSE /\ e \in rPending'
                       /\ rInvoked'[e.token] = rInvoked[e.token]
        /\ (Completes(th, "resolve") /\ Lookup(rPending, rThread[th].token) = {}) =>
              /\ rInvoked' = rInvoked /\ rOutcome' = rOutcome /\ rPending' = rPending
              /\ rThread'[th].result = "dropped"]_regVars

\* C21 witness: a token registered once timed out, its handler was invoked
\* once with Timeout, a later resolve of it was dropped, and the sweep left
\* a younger entry pending.
C21_TimedOutThenLateAccepted ==
    \E th \in Threads, t \in Tokens :
        /\ rThread[th].did = "resolve" /\ rThread[th].result = "dropped"
        /\ rThread[th].token = t
        /\ rOutcome[t] = "Timeout" /\ rInvoked[t] = 1 /\ rRegistered[t] = 1
        /\ Lookup(rPending, t) = {}
        /\ \E e \in rPending : e.issuedAt < rNow

\* the recognised names
StatusNames ==
    {"QUEUED", "IN_PROGRESS", "FAILED", "SUCCESS", "CANCELED", "REJECTED", "REMOVED"}

\* C22: parsing a string that is not one of the seven recognised names
\* returns a decode error: it does not end the process and yields no value
\* outside the closed set of statuses.
C22_UnknownStringIsDecodeError ==
    (jsParsed # "none" /\ jsStr \notin StatusNames) => jsParsed = "DecodeError"

\* C30: for each of the seven statuses s, FromString(ToString(s)) = s, and
\* no other of the seven statuses prints as the string s prints as.
C30_StatusRoundTrip ==
    jsStatus \in JobStatuses =>
        /\ jsBack # "none" => jsBack = jsStatus
        /\ jsText # "none" =>
              /\ jsText \in StatusNames
              /\ \A other \in JobStatuses \ {jsStatus} : ToString(other, jsAsserts) # jsText

\* C30 witness: the last status of the chain was printed and parsed back.
C30_RemovedRoundTripped ==
    /\ jsStatus = "JobStatus::REMOVED"
    /\ jsText = "REMOVED"
    /\ jsBack = "JobStatus::REMOVED"

C24_PublishAfterBothAcks ==
    jPubAck # "none" => (jAck.accepted = "ok" /\ jAck.rejected = "ok")

\* C27: when the transport delivers every acknowledgement and response,
\* the describe-job-execution sample terminates.
C27_JobSampleTerminates == <>(jPc = "done")

\* a delta that names the watched property is handed to onDeltaUpdated
DeltaNamesProperty ==
    DeliverDelta /\ Head(deltaCh).hasState /\ Head(deltaCh).prop.t # "absent"

\* C28: a delivered delta that holds the watched property makes the device
\* issue exactly one UpdateRequest, whose reported and desired values are
\* both "off" when the property is null and both the delta's value otherwise.
C28_OneUpdatePerDelta ==
    [][DeltaNamesProperty
        => LET value == IF IsNull(Head(deltaCh).prop) THEN JStr(SHADOW_VALUE_DEFAULT)
                        ELSE Head(deltaCh).prop
           IN  /\ nPub' = nPub + 1
               /\ Len(devReq') = Len(devReq) + 1
               /\ devReq'[Len(devReq')].reported = value
               /\ devReq'[Len(devReq')].desired = value]_vars

\* the main thread is in the connection wait / in the join wait
InConnWait == pc \in {"conn_check", "conn_towait", "conn_blocked"}
InJoinWait == pc \in {"sub_check", "sub_towait", "sub_blocked"}

\* C25: whenever the connect attempt has completed, with success or with an
\* error, the main thread eventually leaves the connection wait (or the
\* process has ended).
C25_ConnWaitIsLeft == (connectionCompleted /\ Alive) ~> (~InConnWait \/ ~Alive)

\* C26: once all three suback callbacks have run successfully, the main
\* thread eventually passes the join wait (or the process has ended).
C26_JoinWaitIsPassed == (JoinPredicate /\ Alive) ~> (~InJoinWait \/ ~Alive)

\* C29: every Accepted notification handed to onUpdateShadowAccepted carries
\* a state with a reported partition, so the handler's read of
\* response.State.Reported is of a present value and the process does not
\* crash in it.
C29_AcceptedCarriesReported ==
    [][DeliverAccepted => (Head(accCh).hasReported /\ proc' # "crashed")]_vars

====
